---- MODULE Spec2Model ----
(***************************************************************************)
(* VM_Version::initialize() for AArch64 (vm_version_aarch64.cpp): the      *)
(* reconciliation of the command-line flags with the detected CPU          *)
(* features, the SVE vector-length negotiation, the spin-wait descriptor   *)
(* and the virtualization probe.                                           *)
(*                                                                         *)
(* initialize() is straight-line code; the model walks it block by block   *)
(* (one action per if-block or group of flag defaults), with pc naming the *)
(* next block.  The inputs (command line, CPU identity, feature bits,      *)
(* hardware answers, sysfs files) are fixed by the initial state.          *)
(***************************************************************************)
EXTENDS Integers, Sequences, FiniteSets, TLC

VARIABLES
    pc,                          \* the next block of initialize() to run
    cmdline,                     \* the flags the operator set (!FLAG_IS_DEFAULT)
    requested,                   \* every flag's value when initialize() starts
    flags,                       \* the flags' current values
    features,                    \* _features
    cpu,                         \* _cpu, _model, _model2, _variant, _revision
    hw,                          \* dcache line size, DC ZVA, SVE length query
    files,                       \* product_name and hypervisor/type contents
    warnings,                    \* the warning() calls made so far
    fatal,                       \* "none", or why initialization was aborted
    silent,                      \* operator-set flags changed by a block that
                                 \* made no warning() call (history)
    _initial_sve_vector_length,
    sveSet,                      \* the calls of set_and_get_current_sve_vector_length:
                                 \* <<requested length, granted length>> (history)
    _spin_wait,
    _detected_virtualization,
    opened,                      \* the files check_info_file opened, in order (history)
    virtWrites                   \* assignments to _detected_virtualization (history)

vars == <<pc, cmdline, requested, flags, features, cpu, hw, files, warnings,
          fatal, silent, _initial_sve_vector_length, sveSet, _spin_wait,
          _detected_virtualization, opened, virtWrites>>

----------------------------------------------------------------------------
(* Bounds of the model.                                                    *)

\* SVE lengths run over the multiples of 16 up to 16 * MaxVLUnits bytes.
MaxVLUnits == 4
\* Prefetch flags run over -MaxAlignMag..MaxAlignMag and 32768 +- MaxAlignMag.
MaxAlignMag == 17
\* The product_name file has at most MaxProductLines lines.
MaxProductLines == 2
\* The hypervisor/type file has at most MaxTypeLines lines.
MaxTypeLines == 1
\* Explicit OnSpinWaitInstCount values run over 0..MaxSpinCount.
MaxSpinCount == 2

----------------------------------------------------------------------------
(* The flags.                                                              *)

PrefetchKnobs == {"AllocatePrefetchDistance", "AllocatePrefetchStepSize",
                  "PrefetchScanIntervalInBytes", "PrefetchCopyIntervalInBytes",
                  "SoftwarePrefetchHintDistance"}

QuirkBoolKnobs == {"AvoidUnalignedAccesses", "UseSIMDForMemoryOps",
                   "UseSIMDForArrayEquals", "UseSignumIntrinsic",
                   "UseSimpleArrayEquals"}

SHASubKnobs == {"UseSHA1Intrinsics", "UseSHA256Intrinsics",
                "UseSHA3Intrinsics", "UseSHA512Intrinsics"}

AESKnobs == {"UseAES", "UseAESIntrinsics", "UseAESCTRIntrinsics"}

GatedBoolKnobs == {"UseCRC32", "UseCRC32CIntrinsics", "UseLSE", "UseSHA",
                   "UseGHASHIntrinsics", "UseBlockZeroing",
                   "UseVectorizedMismatchIntrinsic", "UsePopCountInstruction"}
                  \cup AESKnobs \cup SHASubKnobs

\* Flags that initialize() only turns on when they are still at their default.
PlainBoolKnobs == {"UseAdler32Intrinsics", "UseCRC32Intrinsics", "UseFMA",
                   "UseMD5Intrinsics", "UseBASE64Intrinsics",
                   "UseUnalignedAccesses", "UseMultiplyToLenIntrinsic",
                   "UseSquareToLenIntrinsic", "UseMulAddIntrinsic",
                   "UseMontgomeryMultiplyIntrinsic",
                   "UseMontgomerySquareIntrinsic", "OptoScheduling",
                   "AlignVector"}

BoolKnobs == QuirkBoolKnobs \cup GatedBoolKnobs \cup PlainBoolKnobs

IntKnobs == PrefetchKnobs \cup {"ContendedPaddingWidth", "BlockZeroingLowLimit",
                                "UseSVE", "MaxVectorSize", "OnSpinWaitInstCount"}

Knobs == BoolKnobs \cup IntKnobs \cup {"OnSpinWaitInst"}

\* The values the flags are declared with (globals.hpp and its per-platform
\* parts); OnSpinWaitInst / OnSpinWaitInstCount as the specification gives them.
DefaultValue ==
    [k \in Knobs |->
        IF k \in {"UseBlockZeroing", "UseSIMDForArrayEquals"} THEN TRUE
        ELSE IF k \in BoolKnobs THEN FALSE
        ELSE IF k = "OnSpinWaitInst" THEN "none"
        ELSE IF k = "AllocatePrefetchStepSize" THEN 16
        ELSE IF k = "ContendedPaddingWidth" THEN 128
        ELSE IF k = "BlockZeroingLowLimit" THEN 256
        ELSE IF k = "MaxVectorSize" THEN 64
        ELSE IF k \in {"UseSVE", "OnSpinWaitInstCount"} THEN 0
        ELSE -1]

FLAG_IS_DEFAULT(k) == k \notin cmdline

\* FLAG_SET_DEFAULT(name, value) and a plain assignment both store the value.
FLAG_SET_DEFAULT(f, k, v) == [f EXCEPT ![k] = v]

\* Turn on every flag of K that is still at its default.
DefaultOn(f, K) == [k \in Knobs |-> IF k \in K /\ FLAG_IS_DEFAULT(k) THEN TRUE ELSE f[k]]

----------------------------------------------------------------------------
(* Arithmetic helpers.                                                     *)

MIN2(a, b) == IF a < b THEN a ELSE b

\* x & 7 on a two's complement intx: the residue of x modulo 8, in 0..7.
And7(x) == x % 8

\* x & ~7: x with its three low bits cleared (rounds towards minus infinity).
AndNot7(x) == x - And7(x)

RECURSIVE is_power_of_2(_)
is_power_of_2(x) ==
    IF x <= 0 THEN FALSE
    ELSE IF x = 1 THEN TRUE
    ELSE IF x % 2 # 0 THEN FALSE
    ELSE is_power_of_2(x \div 2)

\* FloatRegisterImpl::sve_vl_min, as the message and the test at lines 465-468 use it.
sve_vl_min == 16

----------------------------------------------------------------------------
(* The result of one block: the flags after it, the warnings it printed    *)
(* and the fatal error it ended with, if any.                              *)

\* A warning() call: the flag it is about and its text.
Warn(k, text) == <<k, text>>

R(f, w) == [flags |-> f, warn |-> w, fatal |-> "none"]

Fatal(f, w, why) == [flags |-> f, warn |-> w, fatal |-> why]

\* The result r of the earlier blocks of an action, followed by the result
\* s of the next block run on r.flags; a fatal error ends the action.
Then(r, s) ==
    IF r.fatal # "none" THEN r
    ELSE [flags |-> s.flags, warn |-> r.warn \cup s.warn, fatal |-> s.fatal]

----------------------------------------------------------------------------
(* Lines 79-117: the prefetch flags.                                       *)

SetIfDefault(f, k, v) == IF FLAG_IS_DEFAULT(k) THEN FLAG_SET_DEFAULT(f, k, v) ELSE f

\* Lines 83-93: flags left at their default follow the data cache line size.
PrefetchDefaults(f) ==
    LET dcache_line == hw.dcache_line
        f1 == SetIfDefault(f, "AllocatePrefetchDistance", MIN2(512, 3 * dcache_line))
        f2 == SetIfDefault(f1, "AllocatePrefetchStepSize", dcache_line)
        f3 == SetIfDefault(f2, "PrefetchScanIntervalInBytes", 3 * dcache_line)
        f4 == SetIfDefault(f3, "PrefetchCopyIntervalInBytes", 3 * dcache_line)
        f5 == SetIfDefault(f4, "SoftwarePrefetchHintDistance", 3 * dcache_line)
    IN  R(f5, {})

\* RealignPrefetchCopyInterval with the cap of line 100 at 32768 instead of
\* 32760 (a fault C8 must detect).
RealignPrefetchCopyInterval_CapAtLimit(v) ==
    IF v # -1 /\ (And7(v) # 0 \/ v >= 32768)
    THEN [val |-> IF AndNot7(v) >= 32768 THEN 32768 ELSE AndNot7(v), warned |-> TRUE]
    ELSE [val |-> v, warned |-> FALSE]

\* Lines 95-101 on the value v of PrefetchCopyIntervalInBytes.
RealignPrefetchCopyInterval(v) ==
    IF v # -1 /\ (And7(v) # 0 \/ v >= 32768)
    THEN [val |-> IF AndNot7(v) >= 32768 THEN 32760 ELSE AndNot7(v), warned |-> TRUE]
    ELSE [val |-> v, warned |-> FALSE]

\* Lines 103-106 on the value v of AllocatePrefetchDistance.
RealignAllocatePrefetchDistance(v) ==
    IF v # -1 /\ And7(v) # 0
    THEN [val |-> AndNot7(v), warned |-> TRUE]
    ELSE [val |-> v, warned |-> FALSE]

\* Lines 108-111 on the value v of AllocatePrefetchStepSize.
RealignAllocatePrefetchStepSize(v) ==
    IF And7(v) # 0
    THEN [val |-> AndNot7(v), warned |-> TRUE]
    ELSE [val |-> v, warned |-> FALSE]

\* Lines 113-117 on the value v of SoftwarePrefetchHintDistance.
RealignSoftwarePrefetchHintDistance(v) ==
    IF v # -1 /\ And7(v) # 0
    THEN [val |-> AndNot7(v), warned |-> TRUE]
    ELSE [val |-> v, warned |-> FALSE]

\* The realignment of flag k.
Realign(k, v) ==
    IF k = "PrefetchCopyIntervalInBytes" THEN RealignPrefetchCopyInterval(v)
    ELSE IF k = "AllocatePrefetchDistance" THEN RealignAllocatePrefetchDistance(v)
    ELSE IF k = "AllocatePrefetchStepSize" THEN RealignAllocatePrefetchStepSize(v)
    ELSE RealignSoftwarePrefetchHintDistance(v)

RealignedKnobs == {"PrefetchCopyIntervalInBytes", "AllocatePrefetchDistance",
                   "AllocatePrefetchStepSize", "SoftwarePrefetchHintDistance"}

\* The warning of flag k's realignment.
AlignWarning(k) == Warn(k, "must be a multiple of 8")

\* One of the four blocks of lines 95-117.
AlignBlock(f, k) ==
    LET r == Realign(k, f[k])
    IN  R(FLAG_SET_DEFAULT(f, k, r.val), IF r.warned THEN {AlignWarning(k)} ELSE {})

----------------------------------------------------------------------------
(* Lines 119-241: ContendedPaddingWidth and the vendor specific settings.  *)

model_is(m) == cpu.model = m \/ cpu.model2 = m

\* Lines 119-121.
ContendedPadding(f) ==
    IF FLAG_IS_DEFAULT("ContendedPaddingWidth") /\ hw.dcache_line > f["ContendedPaddingWidth"]
    THEN R(FLAG_SET_DEFAULT(f, "ContendedPaddingWidth", hw.dcache_line), {})
    ELSE R(f, {})

\* Lines 134-145: Ampere eMAG.
QuirkEMAG(f) ==
    IF cpu.cpu = "CPU_AMCC" /\ cpu.model = "CPU_MODEL_EMAG" /\ cpu.variant = 3
    THEN LET f1 == SetIfDefault(f, "AvoidUnalignedAccesses", TRUE)
             f2 == SetIfDefault(f1, "UseSIMDForMemoryOps", TRUE)
             f3 == SetIfDefault(f2, "UseSIMDForArrayEquals",
                                ~(cpu.revision = 1 \/ cpu.revision = 2))
         IN  R(f3, {})
    ELSE R(f, {})

\* Lines 147-163: Ampere CPUs.
QuirkAmpere(f) ==
    IF cpu.cpu = "CPU_AMPERE" /\ cpu.model \in {"CPU_MODEL_AMPERE_1",
                                               "CPU_MODEL_AMPERE_1A",
                                               "CPU_MODEL_AMPERE_1B"}
    THEN LET f1 == SetIfDefault(f, "UseSIMDForMemoryOps", TRUE)
             f2 == SetIfDefault(f1, "OnSpinWaitInst", "isb")
             f3 == SetIfDefault(f2, "OnSpinWaitInstCount", 2)
             f4 == SetIfDefault(f3, "UseSignumIntrinsic", TRUE)
         IN  R(f4, {})
    ELSE R(f, {})

\* Lines 165-177: ThunderX; the guarantee() ends the VM on pre-release hardware.
QuirkThunderX(f) ==
    IF cpu.cpu = "CPU_CAVIUM" /\ cpu.model = "0xA1"
    THEN IF cpu.variant = 0
         THEN Fatal(f, {}, "Pre-release hardware no longer supported.")
         ELSE LET f1 == SetIfDefault(f, "AvoidUnalignedAccesses", TRUE)
                  f2 == SetIfDefault(f1, "UseSIMDForMemoryOps", cpu.variant > 0)
                  f3 == SetIfDefault(f2, "UseSIMDForArrayEquals", FALSE)
              IN  R(f3, {})
    ELSE R(f, {})

\* Lines 179-188: ThunderX2.
QuirkThunderX2(f) ==
    IF \/ cpu.cpu = "CPU_CAVIUM" /\ cpu.model = "0xAF"
       \/ cpu.cpu = "CPU_BROADCOM" /\ cpu.model = "0x516"
    THEN R(SetIfDefault(SetIfDefault(f, "AvoidUnalignedAccesses", TRUE),
                        "UseSIMDForMemoryOps", TRUE), {})
    ELSE R(f, {})

\* Lines 190-198: HiSilicon TSV110.
QuirkTSV110(f) ==
    IF cpu.cpu = "CPU_HISILICON" /\ cpu.model = "0xd01"
    THEN R(SetIfDefault(SetIfDefault(f, "AvoidUnalignedAccesses", TRUE),
                        "UseSIMDForMemoryOps", TRUE), {})
    ELSE R(f, {})

\* Lines 200-206: Cortex A53 (the flag part).
QuirkA53(f) ==
    IF cpu.cpu = "CPU_ARM" /\ model_is("0xd03")
    THEN R(SetIfDefault(f, "UseSIMDForArrayEquals", FALSE), {})
    ELSE R(f, {})

\* Lines 208-217: Cortex A73.
QuirkA73(f) ==
    IF cpu.cpu = "CPU_ARM" /\ model_is("0xd09")
    THEN R(SetIfDefault(SetIfDefault(f, "SoftwarePrefetchHintDistance", -1),
                        "UseSimpleArrayEquals", TRUE), {})
    ELSE R(f, {})

\* Lines 219-233: Neoverse N1, N2, V1, V2.
QuirkNeoverse(f) ==
    IF cpu.cpu = "CPU_ARM" /\ (model_is("0xd0c") \/ model_is("0xd49")
                               \/ model_is("0xd40") \/ model_is("0xd4f"))
    THEN LET f1 == SetIfDefault(f, "UseSIMDForMemoryOps", TRUE)
             f2 == SetIfDefault(f1, "OnSpinWaitInst", "isb")
             f3 == SetIfDefault(f2, "OnSpinWaitInstCount", 1)
         IN  R(f3, {})
    ELSE R(f, {})

\* Lines 235-239.
QuirkARM(f) ==
    IF cpu.cpu = "CPU_ARM"
    THEN R(SetIfDefault(f, "UseSignumIntrinsic", TRUE), {})
    ELSE R(f, {})

\* Lines 202 and 241: the feature bits the vendor blocks add.
QuirkFeatures ==
    features
    \cup (IF cpu.cpu = "CPU_ARM" /\ model_is("0xd03") THEN {"A53MAC"} ELSE {})
    \cup (IF cpu.cpu = "CPU_ARM" /\ model_is("0xd07") THEN {"STXR_PREFETCH"} ELSE {})

\* Lines 119-241 in order.
VendorQuirks(f) ==
    LET r0 == ContendedPadding(f)
        r1 == Then(r0, QuirkEMAG(r0.flags))
        r2 == Then(r1, QuirkAmpere(r1.flags))
        r3 == Then(r2, QuirkThunderX(r2.flags))
        r4 == Then(r3, QuirkThunderX2(r3.flags))
        r5 == Then(r4, QuirkTSV110(r4.flags))
        r6 == Then(r5, QuirkA53(r5.flags))
        r7 == Then(r6, QuirkA73(r6.flags))
        r8 == Then(r7, QuirkNeoverse(r7.flags))
    IN  Then(r8, QuirkARM(r8.flags))

----------------------------------------------------------------------------
(* Lines 252-401: the flags gated by a feature bit.                        *)

\* Lines 252-263: UseCRC32 (and the UseAdler32Intrinsics default).
CRC32Block(f) ==
    LET f1 == IF FLAG_IS_DEFAULT("UseCRC32")
              THEN FLAG_SET_DEFAULT(f, "UseCRC32", "CRC32" \in features)
              ELSE f
        f2 == IF f1["UseCRC32"] /\ "CRC32" \notin features
              THEN FLAG_SET_DEFAULT(f1, "UseCRC32", FALSE)
              ELSE f1
        w  == IF f1["UseCRC32"] /\ "CRC32" \notin features
              THEN {Warn("UseCRC32", "specified, but not supported on this CPU")}
              ELSE {}
    IN  R(DefaultOn(f2, {"UseAdler32Intrinsics"}), w)

\* Lines 265-268.
VectorizedMismatchBlock(f) ==
    IF f["UseVectorizedMismatchIntrinsic"]
    THEN R(FLAG_SET_DEFAULT(f, "UseVectorizedMismatchIntrinsic", FALSE),
           {Warn("UseVectorizedMismatchIntrinsic", "specified, but not available on this CPU.")})
    ELSE R(f, {})

\* LSEBlock without the FLAG_IS_DEFAULT test of line 271 (a fault C2 must
\* detect).
LSEBlock_IgnoresOperator(f) ==
    IF "LSE" \in features
    THEN R(FLAG_SET_DEFAULT(f, "UseLSE", TRUE), {})
    ELSE IF f["UseLSE"]
         THEN R(FLAG_SET_DEFAULT(f, "UseLSE", FALSE),
                {Warn("UseLSE", "specified, but not supported on this CPU")})
         ELSE R(f, {})

\* Lines 270-278.
LSEBlock(f) ==
    IF "LSE" \in features
    THEN R(SetIfDefault(f, "UseLSE", TRUE), {})
    ELSE IF f["UseLSE"]
         THEN R(FLAG_SET_DEFAULT(f, "UseLSE", FALSE),
                {Warn("UseLSE", "specified, but not supported on this CPU")})
         ELSE R(f, {})

\* Lines 281-290: the AES bit is present.
AESPresent(f) ==
    LET useAES == f["UseAES"] \/ FLAG_IS_DEFAULT("UseAES")
        useAESIntrinsics ==
            f["UseAESIntrinsics"] \/ (useAES /\ FLAG_IS_DEFAULT("UseAESIntrinsics"))
        enabling == useAESIntrinsics /\ ~useAES
        f1 == [f EXCEPT !["UseAES"] = useAES \/ enabling,
                        !["UseAESIntrinsics"] = useAESIntrinsics]
    IN  R(SetIfDefault(f1, "UseAESCTRIntrinsics", TRUE),
          IF enabling
          THEN {Warn("UseAES", "UseAESIntrinsics enabled, but UseAES not, enabling")}
          ELSE {})

\* AESAbsent without lines 296-299: UseAESIntrinsics is left alone (a fault
\* C4 must detect).
AESAbsent_KeepsIntrinsics(f) ==
    LET off == {k \in AESKnobs \ {"UseAESIntrinsics"} : f[k]}
    IN  R([k \in Knobs |-> IF k \in off THEN FALSE ELSE f[k]],
          {Warn(k, "not available on this CPU") : k \in off})

\* Lines 292-303: the AES bit is absent.
AESAbsent(f) ==
    LET off == {k \in AESKnobs : f[k]}
    IN  R([k \in Knobs |-> IF k \in off THEN FALSE ELSE f[k]],
          {Warn(k, "not available on this CPU") : k \in off})

\* Lines 280-308 (with the UseCRC32Intrinsics default).
AESBlock(f) ==
    LET r == IF "AES" \in features THEN AESPresent(f) ELSE AESAbsent(f)
    IN  R(DefaultOn(r.flags, {"UseCRC32Intrinsics"}), r.warn)

\* Lines 310-325: UseCRC32CIntrinsics (and the UseFMA, UseMD5Intrinsics defaults).
CRC32CBlock(f) ==
    LET r == IF "CRC32" \in features
             THEN R(SetIfDefault(f, "UseCRC32CIntrinsics", TRUE), {})
             ELSE IF f["UseCRC32CIntrinsics"]
                  THEN R(FLAG_SET_DEFAULT(f, "UseCRC32CIntrinsics", FALSE),
                         {Warn("UseCRC32CIntrinsics", "CRC32C is not available on the CPU")})
                  ELSE R(f, {})
    IN  R(DefaultOn(r.flags, {"UseFMA", "UseMD5Intrinsics"}), r.warn)

SHABits == {"SHA1", "SHA2", "SHA3", "SHA512"}

\* Lines 327-334: UseSHA.
SHABlock(f) ==
    IF features \cap SHABits # {}
    THEN R(SetIfDefault(f, "UseSHA", TRUE), {})
    ELSE IF f["UseSHA"]
         THEN R(FLAG_SET_DEFAULT(f, "UseSHA", FALSE),
                {Warn("UseSHA", "SHA instructions are not available on this CPU")})
         ELSE R(f, {})

\* Lines 336-372: one SHA intrinsic flag k with its feature bit; the blocks of
\* UseSHA3Intrinsics and UseSHA512Intrinsics do not turn the flag on.
SHASubBlock(f, k, bit, autoEnable) ==
    IF f["UseSHA"] /\ bit \in features
    THEN R(IF autoEnable THEN SetIfDefault(f, k, TRUE) ELSE f, {})
    ELSE IF f[k]
         THEN R(FLAG_SET_DEFAULT(f, k, FALSE),
                {Warn(k, "Intrinsics not available on this CPU.")})
         ELSE R(f, {})

\* Lines 336-343.
SHA1Block(f) == SHASubBlock(f, "UseSHA1Intrinsics", "SHA1", TRUE)

\* Lines 345-352.
SHA256Block(f) == SHASubBlock(f, "UseSHA256Intrinsics", "SHA2", TRUE)

\* Lines 354-362.
SHA3Block(f) == SHASubBlock(f, "UseSHA3Intrinsics", "SHA3", FALSE)

\* Lines 364-372.
SHA512Block(f) == SHASubBlock(f, "UseSHA512Intrinsics", "SHA512", FALSE)

\* SHAResetBlock without the reset of lines 374-376 (a fault C1 must detect).
SHAResetBlock_NoReset(f) == R(f, {})

\* Lines 374-376: no SHA intrinsic is on, so UseSHA goes off; no warning.
SHAResetBlock(f) ==
    IF ~(\E k \in SHASubKnobs : f[k])
    THEN R(FLAG_SET_DEFAULT(f, "UseSHA", FALSE), {})
    ELSE R(f, {})

\* Lines 378-389: UseGHASHIntrinsics (and the UseBASE64Intrinsics default).
GHASHBlock(f) ==
    LET r == IF "PMULL" \in features
             THEN R(SetIfDefault(f, "UseGHASHIntrinsics", TRUE), {})
             ELSE IF f["UseGHASHIntrinsics"]
                  THEN R(FLAG_SET_DEFAULT(f, "UseGHASHIntrinsics", FALSE),
                         {Warn("UseGHASHIntrinsics", "not available on this CPU")})
                  ELSE R(f, {})
    IN  R(DefaultOn(r.flags, {"UseBASE64Intrinsics"}), r.warn)

\* Lines 391-401.
ZVABlock(f) ==
    IF hw.zva_enabled
    THEN R(SetIfDefault(SetIfDefault(f, "UseBlockZeroing", TRUE),
                        "BlockZeroingLowLimit", 4 * hw.zva_length), {})
    ELSE IF f["UseBlockZeroing"]
         THEN R(FLAG_SET_DEFAULT(f, "UseBlockZeroing", FALSE),
                {Warn("UseBlockZeroing", "DC ZVA is not available on this CPU")})
         ELSE R(f, {})

\* Lines 433-460: UsePopCountInstruction (and the C2 intrinsic defaults).
PopCountBlock(f) ==
    LET f1 == SetIfDefault(f, "UsePopCountInstruction", TRUE)
        r  == IF ~f1["UsePopCountInstruction"]
              THEN R(FLAG_SET_DEFAULT(f1, "UsePopCountInstruction", TRUE),
                     {Warn("UsePopCountInstruction", "is always enabled on this CPU")})
              ELSE R(f1, {})
    IN  R(DefaultOn(r.flags, {"UseMultiplyToLenIntrinsic", "UseSquareToLenIntrinsic",
                              "UseMulAddIntrinsic", "UseMontgomeryMultiplyIntrinsic",
                              "UseMontgomerySquareIntrinsic"}), r.warn)

----------------------------------------------------------------------------
(* Lines 403-431 and 462-510: UseSVE, the SVE vector length, MaxVectorSize.*)

\* Lines 403-410.
SVEGateBlock(f) ==
    IF "SVE" \in features
    THEN R(SetIfDefault(f, "UseSVE", IF "SVE2" \in features THEN 2 ELSE 1), {})
    ELSE IF f["UseSVE"] > 0
         THEN R(FLAG_SET_DEFAULT(f, "UseSVE", 0),
                {Warn("UseSVE", "specified, but not supported on current CPU. Disabling SVE.")})
         ELSE R(f, {})

\* Lines 412-431: vl is what get_current_sve_vector_length() returns.  The
\* result also carries _initial_sve_vector_length after the block.
SVEQueryBlock(f, vl) ==
    LET r == IF f["UseSVE"] > 0
             THEN IF vl < 0
                  THEN R(FLAG_SET_DEFAULT(f, "UseSVE", 0),
                         {Warn("UseSVE", "Unable to get SVE vector length on this system. Disabling SVE.")})
                  ELSE IF vl = 0 \/ vl % sve_vl_min # 0 \/ ~is_power_of_2(vl)
                       THEN R(FLAG_SET_DEFAULT(f, "UseSVE", 0),
                              {Warn("UseSVE", "Detected SVE vector length should be a power of two and a multiple of 16. Disabling SVE.")})
                       ELSE R(f, {})
             ELSE R(f, {})
        recorded == f["UseSVE"] > 0 /\ r.flags["UseSVE"] > 0
    IN  [flags |-> DefaultOn(r.flags, {"UseUnalignedAccesses"}),
         warn |-> r.warn,
         fatal |-> "none",
         vl |-> IF recorded THEN vl ELSE _initial_sve_vector_length]

\* Whether lines 462-484 reach set_and_get_current_sve_vector_length (line 469).
CallsSetVectorLength(f) ==
    /\ f["UseSVE"] > 0
    /\ ~FLAG_IS_DEFAULT("MaxVectorSize")
    /\ f["MaxVectorSize"] >= 16
    /\ f["MaxVectorSize"] % 16 = 0
    /\ is_power_of_2(f["MaxVectorSize"])

\* MaxVectorSizeBelowMinimum as a fatal error (a fault C10 must detect).
MaxVectorSizeBelowMinimum_Fatal(f) ==
    [flags |-> f, warn |-> {}, fatal |-> "Unsupported MaxVectorSize",
     vl |-> _initial_sve_vector_length]

\* Lines 465-467: the operator's MaxVectorSize is below 16.
MaxVectorSizeBelowMinimum(f) ==
    [flags |-> FLAG_SET_DEFAULT(f, "UseSVE", 0),
     warn |-> {Warn("UseSVE", "SVE does not support vector length less than 16 bytes. Disabling SVE.")},
     fatal |-> "none", vl |-> _initial_sve_vector_length]

\* AdoptGrantedLength without the assignment of line 480 (a fault C6 must
\* detect).
AdoptGrantedLength_KeepsRequest(f, new_vl) ==
    IF new_vl < 0
    THEN [flags |-> f, warn |-> {},
          fatal |-> "Current system does not support SVE vector length for MaxVectorSize",
          vl |-> new_vl]
    ELSE [flags |-> f,
          warn |-> IF new_vl # f["MaxVectorSize"]
                   THEN {Warn("MaxVectorSize", "Current system only supports max SVE vector length")}
                   ELSE {},
          fatal |-> "none", vl |-> new_vl]

\* Lines 469-480: new_vl is what set_and_get_current_sve_vector_length()
\* returned.
AdoptGrantedLength(f, new_vl) ==
    IF new_vl < 0
    THEN [flags |-> f, warn |-> {},
          fatal |-> "Current system does not support SVE vector length for MaxVectorSize",
          vl |-> new_vl]
    ELSE [flags |-> FLAG_SET_DEFAULT(f, "MaxVectorSize", new_vl),
          warn |-> IF new_vl # f["MaxVectorSize"]
                   THEN {Warn("MaxVectorSize", "Current system only supports max SVE vector length")}
                   ELSE {},
          fatal |-> "none", vl |-> new_vl]

\* Lines 462-484: new_vl is what set_and_get_current_sve_vector_length()
\* returns, if it is called.
MaxVectorSizeSVEBlock(f, new_vl) ==
    LET mvs == f["MaxVectorSize"]
        keep == _initial_sve_vector_length
    IN  IF f["UseSVE"] > 0
        THEN IF FLAG_IS_DEFAULT("MaxVectorSize")
             THEN [flags |-> FLAG_SET_DEFAULT(f, "MaxVectorSize", keep),
                   warn |-> {}, fatal |-> "none", vl |-> keep]
             ELSE IF mvs < 16
             THEN MaxVectorSizeBelowMinimum(f)
             ELSE IF mvs % 16 = 0 /\ is_power_of_2(mvs)
             THEN AdoptGrantedLength(f, new_vl)
             ELSE [flags |-> f, warn |-> {}, fatal |-> "Unsupported MaxVectorSize",
                   vl |-> keep]
        ELSE [flags |-> f, warn |-> {}, fatal |-> "none", vl |-> keep]

\* Lines 486-510: the NEON range of MaxVectorSize (and the OptoScheduling and
\* AlignVector defaults).
NEONBlock(f) ==
    LET min_vector_size == 8
        max_vector_size == 16
        mvs == f["MaxVectorSize"]
        r == IF f["UseSVE"] = 0
             THEN IF ~FLAG_IS_DEFAULT("MaxVectorSize")
                  THEN IF ~is_power_of_2(mvs)
                       THEN Fatal(f, {}, "Unsupported MaxVectorSize")
                       ELSE IF mvs < min_vector_size
                       THEN R(FLAG_SET_DEFAULT(f, "MaxVectorSize", min_vector_size),
                              {Warn("MaxVectorSize", "must be at least 8 on this platform")})
                       ELSE IF mvs > max_vector_size
                       THEN R(FLAG_SET_DEFAULT(f, "MaxVectorSize", max_vector_size),
                              {Warn("MaxVectorSize", "must be at most 16 on this platform")})
                       ELSE R(f, {})
                  ELSE R(FLAG_SET_DEFAULT(f, "MaxVectorSize", 16), {})
             ELSE R(f, {})
        f1 == DefaultOn(r.flags, {"OptoScheduling"})
        f2 == SetIfDefault(f1, "AlignVector", f1["AvoidUnalignedAccesses"])
    IN  IF r.fatal # "none" THEN r ELSE R(f2, r.warn)

----------------------------------------------------------------------------
(* Lines 52-68: get_spin_wait_desc.                                        *)

\* SpinWait{}: no instruction, no repetition.
SpinWaitNone == [inst |-> "NONE", count |-> 0]

\* spin_wait_none without the test of lines 63-65 (a fault C7 must detect).
spin_wait_none_NoCountCheck(f) == [desc |-> SpinWaitNone, fatal |-> "none"]

\* Lines 63-67: the strategy is none.
spin_wait_none(f) ==
    IF ~FLAG_IS_DEFAULT("OnSpinWaitInstCount") /\ f["OnSpinWaitInstCount"] > 0
    THEN [desc |-> _spin_wait,
          fatal |-> "OnSpinWaitInstCount cannot be used for OnSpinWaitInst 'none'"]
    ELSE [desc |-> SpinWaitNone, fatal |-> "none"]

\* Lines 52-68: the descriptor, or the fatal error, for the two spin-wait
\* flags.
get_spin_wait_desc(f) ==
    LET inst  == f["OnSpinWaitInst"]
        count == f["OnSpinWaitInstCount"]
    IN  IF inst = "nop" THEN [desc |-> [inst |-> "NOP", count |-> count], fatal |-> "none"]
        ELSE IF inst = "isb" THEN [desc |-> [inst |-> "ISB", count |-> count], fatal |-> "none"]
        ELSE IF inst = "yield" THEN [desc |-> [inst |-> "YIELD", count |-> count], fatal |-> "none"]
        ELSE IF inst # "none"
        THEN [desc |-> _spin_wait,
              fatal |-> "The options for OnSpinWaitInst are nop, isb, yield, and none"]
        ELSE spin_wait_none(f)

----------------------------------------------------------------------------
(* Lines 520-555: check_info_file and check_virtualizations.  A line is a  *)
(* sequence of characters; strcasestr looks for a signature in it,         *)
(* ignoring case.                                                          *)

\* tolower() on the characters the model's lines are made of.
ToLower(c) ==
    CASE c = "K" -> "k" [] c = "V" -> "v" [] c = "M" -> "m" [] c = "W" -> "w"
      [] c = "A" -> "a" [] c = "R" -> "r" [] c = "E" -> "e" [] c = "X" -> "x"
      [] c = "N" -> "n" [] OTHER -> c

\* Whether needle occurs in line at offset i (0-based), ignoring case.
MatchesAt(line, needle, i) ==
    /\ i + Len(needle) <= Len(line)
    /\ \A j \in 1..Len(needle) : ToLower(line[i + j]) = ToLower(needle[j])

\* strcasestr(line, needle) != 0
strcasestr(line, needle) == \E i \in 0..Len(line) : MatchesAt(line, needle, i)

SigKVM    == <<"K", "V", "M">>
SigVMWare == <<"V", "M", "W", "a", "r", "e">>
SigXen    == <<"X", "e", "n">>
\* virt2 == NULL
NoSig     == <<>>

\* Lines 529-540: the first line, from line n on, that holds virt1 or virt2.
RECURSIVE ScanLines(_, _, _, _, _, _)
ScanLines(lines, n, virt1, vt1, virt2, vt2) ==
    IF n > Len(lines) THEN [found |-> FALSE, vt |-> "NoDetectedVirtualization"]
    ELSE IF strcasestr(lines[n], virt1) THEN [found |-> TRUE, vt |-> vt1]
    ELSE IF virt2 # NoSig /\ strcasestr(lines[n], virt2) THEN [found |-> TRUE, vt |-> vt2]
    ELSE ScanLines(lines, n + 1, virt1, vt1, virt2, vt2)

\* Lines 521-543: file is [exists, lines]; a file that cannot be opened
\* gives false.
check_info_file(file, virt1, vt1, virt2, vt2) ==
    IF ~file.exists THEN [found |-> FALSE, vt |-> "NoDetectedVirtualization"]
    ELSE ScanLines(file.lines, 1, virt1, vt1, virt2, vt2)

\* check_virtualizations without the early return of lines 550-552 (a fault
\* C9 must detect).
check_virtualizations_NoShortCircuit ==
    LET p == check_info_file(files.pname, SigKVM, "KVM", SigVMWare, "VMWare")
        t == check_info_file(files.tname, SigXen, "XenPVHVM", NoSig,
                             "NoDetectedVirtualization")
    IN  [vt |-> IF t.found THEN t.vt
                ELSE IF p.found THEN p.vt ELSE _detected_virtualization,
         opened |-> <<"product_name", "hypervisor/type">>,
         writes |-> (IF p.found THEN 1 ELSE 0) + (IF t.found THEN 1 ELSE 0)]

\* Lines 546-555: the verdict after check_virtualizations, the files it
\* passed to os::fopen and the number of times it stored a verdict.
check_virtualizations ==
    LET p == check_info_file(files.pname, SigKVM, "KVM", SigVMWare, "VMWare")
        t == check_info_file(files.tname, SigXen, "XenPVHVM", NoSig,
                             "NoDetectedVirtualization")
    IN  IF p.found
        THEN [vt |-> p.vt, opened |-> <<"product_name">>, writes |-> 1]
        ELSE [vt |-> IF t.found THEN t.vt ELSE _detected_virtualization,
              opened |-> <<"product_name", "hypervisor/type">>,
              writes |-> IF t.found THEN 1 ELSE 0]

----------------------------------------------------------------------------
(* The inputs: what the operator, the CPU and the operating system can     *)
(* present to initialize().  The blocks of initialize() fall into groups   *)
(* that read and write disjoint flags and feature bits, so the inputs vary *)
(* one group at a time, the rest staying at the base input.                *)

GenericCPU == [cpu |-> "CPU_OTHER", model |-> "other", model2 |-> "0",
               variant |-> 0, revision |-> 0]

NoFile == [exists |-> FALSE, lines |-> <<>>]

BaseInput ==
    [cmdline |-> {}, requested |-> DefaultValue, features |-> {},
     cpu |-> GenericCPU,
     hw |-> [dcache_line |-> 64, zva_enabled |-> TRUE, zva_length |-> 64, sve_vl |-> 32],
     files |-> [pname |-> NoFile, tname |-> NoFile]]

\* The command line that sets the flags of DOMAIN v to the values v gives.
WithFlags(in, v) ==
    [in EXCEPT !.cmdline = DOMAIN v,
               !.requested = [k \in Knobs |-> IF k \in DOMAIN v THEN v[k] ELSE DefaultValue[k]]]

\* Every way of setting some of the boolean flags K.
BoolAssignments(K) == UNION {[S -> BOOLEAN] : S \in SUBSET K}

\* Every way of setting at most one flag of K to a value of V.
SingleAssignments(K, V) == {[k \in {} |-> TRUE]} \cup UNION {[{k} -> V] : k \in K}

\* The flags K and the feature bits B vary.
GatedInputs(B, K) ==
    {WithFlags([BaseInput EXCEPT !.features = F], v) :
        F \in SUBSET B, v \in BoolAssignments(K)}

CryptoInputs ==
    GatedInputs(SHABits, {"UseSHA"} \cup SHASubKnobs)
    \cup GatedInputs({"AES"}, AESKnobs)

SimpleGatedInputs ==
    GatedInputs({"CRC32"}, {"UseCRC32", "UseCRC32CIntrinsics"})
    \cup GatedInputs({"LSE"}, {"UseLSE"})
    \cup GatedInputs({"PMULL"}, {"UseGHASHIntrinsics"})
    \cup GatedInputs({}, {"UsePopCountInstruction", "UseVectorizedMismatchIntrinsic"})
    \cup {WithFlags([BaseInput EXCEPT !.hw.zva_enabled = z], v) :
            z \in BOOLEAN, v \in BoolAssignments({"UseBlockZeroing"})}
    \cup {WithFlags(BaseInput, v) : v \in SingleAssignments(PlainBoolKnobs, BOOLEAN)}

CPUs == {"CPU_ARM", "CPU_AMCC", "CPU_AMPERE", "CPU_CAVIUM", "CPU_BROADCOM",
         "CPU_HISILICON", "CPU_OTHER"}

Models == {"CPU_MODEL_EMAG", "CPU_MODEL_AMPERE_1", "CPU_MODEL_AMPERE_1A",
           "CPU_MODEL_AMPERE_1B", "0xA1", "0xAF", "0x516", "0xd01", "0xd03",
           "0xd07", "0xd09", "0xd0c", "0xd49", "0xd40", "0xd4f", "other"}

Identities ==
    [cpu : CPUs, model : Models, model2 : {"0", "0xd03", "0xd0c"},
     variant : {0, 1, 3}, revision : {0, 1}]

\* One CPU of every vendor block, and one that no block knows.
KeyIdentities ==
    {GenericCPU,
     [cpu |-> "CPU_AMCC", model |-> "CPU_MODEL_EMAG", model2 |-> "0", variant |-> 3, revision |-> 1],
     [cpu |-> "CPU_AMPERE", model |-> "CPU_MODEL_AMPERE_1A", model2 |-> "0", variant |-> 0, revision |-> 0],
     [cpu |-> "CPU_CAVIUM", model |-> "0xA1", model2 |-> "0", variant |-> 1, revision |-> 0],
     [cpu |-> "CPU_CAVIUM", model |-> "0xAF", model2 |-> "0", variant |-> 0, revision |-> 0],
     [cpu |-> "CPU_HISILICON", model |-> "0xd01", model2 |-> "0", variant |-> 0, revision |-> 0],
     [cpu |-> "CPU_ARM", model |-> "0xd03", model2 |-> "0", variant |-> 0, revision |-> 0],
     [cpu |-> "CPU_ARM", model |-> "0xd09", model2 |-> "0xd03", variant |-> 0, revision |-> 0],
     [cpu |-> "CPU_ARM", model |-> "0xd0c", model2 |-> "0", variant |-> 0, revision |-> 0],
     [cpu |-> "CPU_ARM", model |-> "0xd40", model2 |-> "0", variant |-> 1, revision |-> 0]}

QuirkInputs ==
    {[BaseInput EXCEPT !.cpu = id] : id \in Identities}
    \cup {WithFlags([BaseInput EXCEPT !.cpu = id], v) :
            id \in KeyIdentities, v \in BoolAssignments(QuirkBoolKnobs)}

SpinInsts == {"nop", "isb", "yield", "none", "pause"}

SpinInputs ==
    {WithFlags([BaseInput EXCEPT !.cpu = id], v) :
        id \in KeyIdentities,
        v \in UNION {{[k \in S |-> IF k = "OnSpinWaitInst" THEN i ELSE c] :
                        i \in SpinInsts, c \in 0..MaxSpinCount} :
                     S \in SUBSET {"OnSpinWaitInst", "OnSpinWaitInstCount"}}}

\* The lengths in bytes SVE hardware can have.
SVELengths == {16 * n : n \in 1..MaxVLUnits}

\* What get_current_sve_vector_length() may return.
VLQueries == {-1, 0, 8} \cup SVELengths

\* What set_and_get_current_sve_vector_length(req) may return: failure, or
\* the length the system grants, the request or a shorter length.
VLGrants(req) == {-1} \cup {g \in SVELengths : g <= req}

MaxVectorSizes == {0, 4, 8, 12, 24} \cup SVELengths

SVEInputs ==
    {WithFlags([BaseInput EXCEPT !.features = F, !.hw.sve_vl = vl], v) :
        F \in SUBSET {"SVE", "SVE2"}, vl \in VLQueries,
        v \in UNION {{[k \in S |-> IF k = "UseSVE" THEN u ELSE m] :
                        u \in 0..2, m \in MaxVectorSizes} :
                     S \in SUBSET {"UseSVE", "MaxVectorSize"}}}

AlignValues == (-MaxAlignMag..MaxAlignMag)
               \cup ((32768 - MaxAlignMag)..(32768 + MaxAlignMag))

PrefetchInputs ==
    {[BaseInput EXCEPT !.hw.dcache_line = d] : d \in {4, 64, 256}}
    \cup {WithFlags(BaseInput, v) : v \in SingleAssignments(PrefetchKnobs, AlignValues)}

\* The lines a sysfs file of the model can hold.
Lines == {<<"P", "C">>,
          <<"K", "V", "M">>,
          <<"x", "k", "v", "m">>,
          <<"V", "M", "w", "a", "r", "e", "7">>,
          <<"v", "m", "w", "a", "r", "e", "K", "v", "m">>,
          <<"X", "E", "N">>}

\* The files of at most n lines, and the file that cannot be opened.
Files(n) == {NoFile} \cup {[exists |-> TRUE, lines |-> l] :
                              l \in UNION {[1..m -> Lines] : m \in 0..n}}

VirtInputs ==
    {[BaseInput EXCEPT !.files = [pname |-> p, tname |-> t]] :
        p \in Files(MaxProductLines), t \in Files(MaxTypeLines)}

AllInputs == CryptoInputs \cup SimpleGatedInputs \cup QuirkInputs \cup SpinInputs
             \cup SVEInputs \cup PrefetchInputs \cup VirtInputs

\* The state when initialize() is entered with input in.
InitFrom(in) ==
    /\ pc = "prefetch_defaults"
    /\ cmdline = in.cmdline
    /\ requested = in.requested
    /\ flags = in.requested
    /\ features = in.features
    /\ cpu = in.cpu
    /\ hw = in.hw
    /\ files = in.files
    /\ warnings = {}
    /\ fatal = "none"
    /\ silent = {}
    /\ _initial_sve_vector_length = 0
    /\ sveSet = <<>>
    /\ _spin_wait = SpinWaitNone
    /\ _detected_virtualization = "NoDetectedVirtualization"
    /\ opened = <<>>
    /\ virtWrites = 0

Init == \E in \in AllInputs : InitFrom(in)

----------------------------------------------------------------------------
(* The actions: the blocks of initialize(), in program order.              *)

\* What no block of initialize() writes.
inputs == <<cmdline, requested, cpu, hw, files>>

\* Block cur ends with result r and hands over to block nxt; a fatal error
\* ends the VM instead.  A flag of the command line that the block changed
\* without a warning() call is remembered in silent.
Advance(cur, nxt, r) ==
    /\ pc = cur
    /\ flags' = r.flags
    /\ warnings' = warnings \cup r.warn
    /\ silent' = silent \cup {k \in cmdline : r.flags[k] # flags[k] /\ r.warn = {}}
    /\ fatal' = r.fatal
    /\ pc' = IF r.fatal = "none" THEN nxt ELSE "aborted"
    /\ UNCHANGED inputs

\* A block that writes flags only.
FlagBlock(cur, nxt, r) ==
    /\ Advance(cur, nxt, r)
    /\ UNCHANGED <<features, _initial_sve_vector_length, sveSet, _spin_wait,
                   _detected_virtualization, opened, virtWrites>>

DoPrefetchDefaults == FlagBlock("prefetch_defaults", "align_copy", PrefetchDefaults(flags))

DoAlignCopy ==
    FlagBlock("align_copy", "align_distance",
              AlignBlock(flags, "PrefetchCopyIntervalInBytes"))

DoAlignDistance ==
    FlagBlock("align_distance", "align_step", AlignBlock(flags, "AllocatePrefetchDistance"))

DoAlignStepSize ==
    FlagBlock("align_step", "align_hint", AlignBlock(flags, "AllocatePrefetchStepSize"))

DoAlignHint ==
    FlagBlock("align_hint", "vendor", AlignBlock(flags, "SoftwarePrefetchHintDistance"))

DoVendorQuirks ==
    /\ Advance("vendor", "crc32", VendorQuirks(flags))
    /\ features' = IF VendorQuirks(flags).fatal = "none" THEN QuirkFeatures ELSE features
    /\ UNCHANGED <<_initial_sve_vector_length, sveSet, _spin_wait,
                   _detected_virtualization, opened, virtWrites>>

DoCRC32 == FlagBlock("crc32", "mismatch", CRC32Block(flags))

DoVectorizedMismatch == FlagBlock("mismatch", "lse", VectorizedMismatchBlock(flags))

DoLSE == FlagBlock("lse", "aes", LSEBlock(flags))

DoAES == FlagBlock("aes", "crc32c", AESBlock(flags))

DoCRC32C == FlagBlock("crc32c", "sha", CRC32CBlock(flags))

DoSHA == FlagBlock("sha", "sha1", SHABlock(flags))

DoSHA1 == FlagBlock("sha1", "sha256", SHA1Block(flags))

DoSHA256 == FlagBlock("sha256", "sha3", SHA256Block(flags))

DoSHA3 == FlagBlock("sha3", "sha512", SHA3Block(flags))

DoSHA512 == FlagBlock("sha512", "sha_reset", SHA512Block(flags))

DoSHAReset == FlagBlock("sha_reset", "ghash", SHAResetBlock(flags))

DoGHASH == FlagBlock("ghash", "zva", GHASHBlock(flags))

DoZVA == FlagBlock("zva", "sve_gate", ZVABlock(flags))

DoSVEGate == FlagBlock("sve_gate", "sve_query", SVEGateBlock(flags))

DoSVEQuery ==
    LET r == SVEQueryBlock(flags, hw.sve_vl)
    IN  /\ Advance("sve_query", "popcount", r)
        /\ _initial_sve_vector_length' = r.vl
        /\ UNCHANGED <<features, sveSet, _spin_wait, _detected_virtualization,
                       opened, virtWrites>>

DoPopCount == FlagBlock("popcount", "max_vector_sve", PopCountBlock(flags))

\* The operating system answers the set-attempt, if one is made, with any
\* length it can grant or with failure.
DoMaxVectorSizeSVE ==
    \E new_vl \in IF CallsSetVectorLength(flags)
                  THEN VLGrants(flags["MaxVectorSize"]) ELSE {0} :
        LET r == MaxVectorSizeSVEBlock(flags, new_vl)
        IN  /\ Advance("max_vector_sve", "neon", r)
            /\ _initial_sve_vector_length' = r.vl
            /\ sveSet' = IF CallsSetVectorLength(flags)
                         THEN Append(sveSet, <<flags["MaxVectorSize"], new_vl>>)
                         ELSE sveSet
            /\ UNCHANGED <<features, _spin_wait, _detected_virtualization,
                           opened, virtWrites>>

DoNEON == FlagBlock("neon", "spin_wait", NEONBlock(flags))

\* Line 513.
DoSpinWait ==
    LET d == get_spin_wait_desc(flags)
    IN  /\ Advance("spin_wait", "virtualization",
                   [flags |-> flags, warn |-> {}, fatal |-> d.fatal])
        /\ _spin_wait' = d.desc
        /\ UNCHANGED <<features, _initial_sve_vector_length, sveSet,
                       _detected_virtualization, opened, virtWrites>>

\* Line 515.
DoCheckVirtualizations ==
    LET v == check_virtualizations
    IN  /\ Advance("virtualization", "done", R(flags, {}))
        /\ _detected_virtualization' = v.vt
        /\ opened' = opened \o v.opened
        /\ virtWrites' = virtWrites + v.writes
        /\ UNCHANGED <<features, _initial_sve_vector_length, sveSet, _spin_wait>>

Next ==
    \/ DoPrefetchDefaults
    \/ DoAlignCopy
    \/ DoAlignDistance
    \/ DoAlignStepSize
    \/ DoAlignHint
    \/ DoVendorQuirks
    \/ DoCRC32
    \/ DoVectorizedMismatch
    \/ DoLSE
    \/ DoAES
    \/ DoCRC32C
    \/ DoSHA
    \/ DoSHA1
    \/ DoSHA256
    \/ DoSHA3
    \/ DoSHA512
    \/ DoSHAReset
    \/ DoGHASH
    \/ DoZVA
    \/ DoSVEGate
    \/ DoSVEQuery
    \/ DoPopCount
    \/ DoMaxVectorSizeSVE
    \/ DoNEON
    \/ DoSpinWait
    \/ DoCheckVirtualizations

Spec == Init /\ [][Next]_vars

----------------------------------------------------------------------------
(* Helpers of the properties.                                              *)

BlockOrder == <<"prefetch_defaults", "align_copy", "align_distance", "align_step",
                "align_hint", "vendor", "crc32", "mismatch", "lse", "aes",
                "crc32c", "sha", "sha1", "sha256", "sha3", "sha512", "sha_reset",
                "ghash", "zva", "sve_gate", "sve_query", "popcount",
                "max_vector_sve", "neon", "spin_wait", "virtualization", "done">>

Pos(l) == CHOOSE i \in 1..Len(BlockOrder) : BlockOrder[i] = l

\* initialize() has run block l and was not aborted.
Past(l) == pc # "aborted" /\ Pos(pc) > Pos(l)

\* The operator set flag k to value v.
Explicit(k, v) == k \in cmdline /\ requested[k] = v

----------------------------------------------------------------------------
(* C1 as stated: when initialize() completes, in the SHA family and in the *)
(* AES family a true master flag has at least one true sub flag (all sub   *)
(* flags false implies the master is false).                               *)
C1_NoDanglingMaster ==
    pc = "done" =>
        /\ flags["UseSHA"] => \E k \in SHASubKnobs : flags[k]
        /\ flags["UseAES"] => flags["UseAESIntrinsics"] \/ flags["UseAESCTRIntrinsics"]

(* C1 amended: the SHA family has no dangling master.  In the AES family   *)
(* UseAES ends true with both sub flags false exactly when the AES bit is  *)
(* present, the operator set UseAESIntrinsics and UseAESCTRIntrinsics to   *)
(* false and did not set UseAES to false; nothing resets the AES master.   *)
C1_NoDanglingMasterSHA ==
    pc = "done" =>
        /\ flags["UseSHA"] => \E k \in SHASubKnobs : flags[k]
        /\ (flags["UseAES"] /\ ~flags["UseAESIntrinsics"] /\ ~flags["UseAESCTRIntrinsics"])
           <=> /\ "AES" \in features
               /\ Explicit("UseAESIntrinsics", FALSE)
               /\ Explicit("UseAESCTRIntrinsics", FALSE)
               /\ ~Explicit("UseAES", FALSE)

\* The operator asked for UseSHA on a CPU with SHA bits, no SHA intrinsic
\* ended up enabled, and the master was reset.
C1_Witness ==
    /\ pc = "done"
    /\ Explicit("UseSHA", TRUE)
    /\ features \cap SHABits # {}
    /\ \A k \in SHASubKnobs : ~flags[k]
    /\ ~flags["UseSHA"]

----------------------------------------------------------------------------
(* C2 as stated: a boolean flag the operator set to false is false when    *)
(* initialize() completes.                                                 *)
C2_ExplicitFalseSticky ==
    pc = "done" => \A k \in BoolKnobs : Explicit(k, FALSE) => ~flags[k]

(* C2 amended: a boolean flag the operator set to false is false when      *)
(* initialize() completes, except UsePopCountInstruction, which always     *)
(* ends true with a warning, and UseAES, which ends true with a warning    *)
(* exactly when the AES bit is present and the operator set                *)
(* UseAESIntrinsics to true.                                               *)
C2_ExplicitFalseStickyExcept ==
    pc = "done" =>
        \A k \in BoolKnobs :
            Explicit(k, FALSE) =>
                IF k = "UsePopCountInstruction"
                THEN flags[k] /\ Warn(k, "is always enabled on this CPU") \in warnings
                ELSE IF k = "UseAES"
                THEN flags[k] <=> /\ "AES" \in features
                                  /\ Explicit("UseAESIntrinsics", TRUE)
                                  /\ Warn(k, "UseAESIntrinsics enabled, but UseAES not, enabling")
                                       \in warnings
                ELSE ~flags[k]

\* The CPU has LSE, the operator turned UseLSE off, and it stayed off.
C2_Witness ==
    /\ pc = "done"
    /\ "LSE" \in features
    /\ Explicit("UseLSE", FALSE)
    /\ ~flags["UseLSE"]

----------------------------------------------------------------------------
(* C3: when initialize() completes, no flag of the command line has a      *)
(* final value different from the operator's that was changed by a block   *)
(* that printed no warning.                                                *)
C3_NoSilentOverride ==
    pc = "done" => \A k \in cmdline : flags[k] # requested[k] => k \notin silent

----------------------------------------------------------------------------
(* C4: when initialize() completes, every enabled feature-gated flag has   *)
(* its feature: UseCRC32 and UseCRC32CIntrinsics the CRC32 bit, UseLSE the *)
(* LSE bit, the AES flags the AES bit, UseSHA some SHA bit, each SHA       *)
(* intrinsic flag UseSHA and its own bit, UseGHASHIntrinsics PMULL,        *)
(* UseBlockZeroing DC ZVA, UseSVE > 0 the SVE bit.  Without the AES bit    *)
(* and with UseAESIntrinsics set to true by the operator, the AES block    *)
(* leaves UseAES and UseAESIntrinsics false and has warned; no block of    *)
(* the feature-gated flags aborts initialization.                          *)
OtherFatals == {"Pre-release hardware no longer supported.",
                "Current system does not support SVE vector length for MaxVectorSize",
                "Unsupported MaxVectorSize",
                "The options for OnSpinWaitInst are nop, isb, yield, and none",
                "OnSpinWaitInstCount cannot be used for OnSpinWaitInst 'none'"}

SHABitOf(k) ==
    IF k = "UseSHA1Intrinsics" THEN "SHA1"
    ELSE IF k = "UseSHA256Intrinsics" THEN "SHA2"
    ELSE IF k = "UseSHA3Intrinsics" THEN "SHA3"
    ELSE "SHA512"

C4_HardwareSupportable ==
    /\ pc = "done" =>
        /\ flags["UseCRC32"] => "CRC32" \in features
        /\ flags["UseCRC32CIntrinsics"] => "CRC32" \in features
        /\ flags["UseLSE"] => "LSE" \in features
        /\ \A k \in AESKnobs : flags[k] => "AES" \in features
        /\ flags["UseSHA"] => features \cap SHABits # {}
        /\ \A k \in SHASubKnobs : flags[k] => flags["UseSHA"] /\ SHABitOf(k) \in features
        /\ flags["UseGHASHIntrinsics"] => "PMULL" \in features
        /\ flags["UseBlockZeroing"] => hw.zva_enabled
        /\ flags["UseSVE"] > 0 => "SVE" \in features
    /\ (Past("aes") /\ "AES" \notin features /\ Explicit("UseAESIntrinsics", TRUE)) =>
        /\ ~flags["UseAES"]
        /\ ~flags["UseAESIntrinsics"]
        /\ Warn("UseAESIntrinsics", "not available on this CPU") \in warnings
    /\ pc = "aborted" => fatal \in OtherFatals

\* The scenario: no AES bit, -XX:+UseAESIntrinsics, initialization completed.
C4_Witness ==
    /\ pc = "done"
    /\ "AES" \notin features
    /\ Explicit("UseAESIntrinsics", TRUE)
    /\ Explicit("UseAES", TRUE)
    /\ ~flags["UseAES"]
    /\ ~flags["UseAESIntrinsics"]

----------------------------------------------------------------------------
(* C5: whenever a length has been recorded in _initial_sve_vector_length   *)
(* (by the first query or by the re-read after the set-attempt), it is a   *)
(* power of two, a multiple of 16 and not larger than the length the       *)
(* set-attempt returned.  (Stated for the runs that were not aborted: a    *)
(* failed set-attempt also records its negative result, just before the    *)
(* VM exits.)                                                              *)
C5_VectorLengthInvariant ==
    (pc # "aborted" /\ _initial_sve_vector_length # 0) =>
        /\ is_power_of_2(_initial_sve_vector_length)
        /\ _initial_sve_vector_length % sve_vl_min = 0
        /\ sveSet # <<>> => _initial_sve_vector_length <= sveSet[Len(sveSet)][2]

----------------------------------------------------------------------------
(* C6: the set-attempt is made at most once, and exactly when SVE is on    *)
(* and the operator's MaxVectorSize is a power of two and a multiple of    *)
(* 16; when it grants a length g >= 0 other than the requested one, the    *)
(* block does not abort, warns, and leaves _initial_sve_vector_length and  *)
(* MaxVectorSize equal to g; when initialize() completes with UseSVE > 0,  *)
(* MaxVectorSize equals _initial_sve_vector_length.                        *)
MaxVectorSizeFatals ==
    {"Current system does not support SVE vector length for MaxVectorSize",
     "Unsupported MaxVectorSize"}

C6_ClampToGranted ==
    /\ Len(sveSet) <= 1
    /\ \A i \in 1..Len(sveSet) :
        LET req == sveSet[i][1]
            g   == sveSet[i][2]
        IN  /\ Explicit("MaxVectorSize", req)
            /\ req % 16 = 0 /\ is_power_of_2(req)
            /\ (g >= 0 /\ g # req) =>
                /\ _initial_sve_vector_length = g
                /\ flags["MaxVectorSize"] = g
                /\ flags["UseSVE"] > 0
                /\ Warn("MaxVectorSize", "Current system only supports max SVE vector length")
                     \in warnings
                /\ fatal \notin MaxVectorSizeFatals
    /\ (Past("max_vector_sve") /\ flags["UseSVE"] > 0) =>
        /\ flags["MaxVectorSize"] = _initial_sve_vector_length
        /\ "MaxVectorSize" \in cmdline <=> sveSet # <<>>

\* Requested 64, granted 32: initialization completed with both at 32.
C6_Witness ==
    /\ pc = "done"
    /\ sveSet = << <<64, 32>> >>
    /\ flags["UseSVE"] = 2
    /\ flags["MaxVectorSize"] = 32
    /\ _initial_sve_vector_length = 32

----------------------------------------------------------------------------
(* C7 as stated: a descriptor is produced only for nop, isb, yield and     *)
(* none; a positive count set by the operator with the strategy left at    *)
(* its default or set to none never gets a descriptor, on any CPU; a NONE  *)
(* descriptor has count 0; nop with the count left at its default gives    *)
(* NOP with the count flag's value.                                        *)
CountWithoutStrategy ==
    /\ "OnSpinWaitInstCount" \in cmdline
    /\ requested["OnSpinWaitInstCount"] > 0
    /\ "OnSpinWaitInst" \notin cmdline \/ requested["OnSpinWaitInst"] = "none"

SpinWaitShape ==
    /\ Past("spin_wait") => flags["OnSpinWaitInst"] \in {"nop", "isb", "yield", "none"}
    /\ (Past("spin_wait") /\ _spin_wait.inst = "NONE") => _spin_wait.count = 0
    /\ (Past("spin_wait") /\ Explicit("OnSpinWaitInst", "nop")
          /\ "OnSpinWaitInstCount" \notin cmdline)
        => _spin_wait = [inst |-> "NOP", count |-> flags["OnSpinWaitInstCount"]]
    /\ (pc = "aborted" /\ fatal = "The options for OnSpinWaitInst are nop, isb, yield, and none")
        => flags["OnSpinWaitInst"] \notin {"nop", "isb", "yield", "none"}

C7_SpinWaitValidity ==
    /\ SpinWaitShape
    /\ CountWithoutStrategy => ~Past("spin_wait")

(* C7 amended: as stated, except that the positive count is fatal when the *)
(* strategy is none when get_spin_wait_desc runs: set to none by the       *)
(* operator, or left at its default on a CPU other than Ampere-1/1A/1B and *)
(* Neoverse N1/N2/V1/V2.  On those CPUs the default strategy becomes isb   *)
(* and the descriptor is ISB with the operator's count.                    *)
SpinDefaultIsISB ==
    \/ cpu.cpu = "CPU_AMPERE" /\ cpu.model \in {"CPU_MODEL_AMPERE_1", "CPU_MODEL_AMPERE_1A",
                                                "CPU_MODEL_AMPERE_1B"}
    \/ cpu.cpu = "CPU_ARM" /\ \E m \in {"0xd0c", "0xd49", "0xd40", "0xd4f"} :
                                 cpu.model = m \/ cpu.model2 = m

C7_SpinWaitValidityVendor ==
    /\ SpinWaitShape
    /\ (CountWithoutStrategy /\ ("OnSpinWaitInst" \in cmdline \/ ~SpinDefaultIsISB))
        => /\ ~Past("spin_wait")
           /\ pc = "aborted" =>
                fatal = "OnSpinWaitInstCount cannot be used for OnSpinWaitInst 'none'"
    /\ (CountWithoutStrategy /\ "OnSpinWaitInst" \notin cmdline /\ SpinDefaultIsISB
          /\ Past("spin_wait"))
        => _spin_wait = [inst |-> "ISB", count |-> requested["OnSpinWaitInstCount"]]

\* -XX:OnSpinWaitInst=none -XX:OnSpinWaitInstCount=2 ended the VM.
C7_Witness ==
    /\ pc = "aborted"
    /\ fatal = "OnSpinWaitInstCount cannot be used for OnSpinWaitInst 'none'"
    /\ Explicit("OnSpinWaitInst", "none")
    /\ Explicit("OnSpinWaitInstCount", 2)

----------------------------------------------------------------------------
(* C8: after the four realignment blocks, for each realigned flag: a value *)
(* that already met the flag's constraint is unchanged and drew no         *)
(* warning; realigning the result again changes nothing and warns of       *)
(* nothing; the result is not greater than the value before.               *)
MeetsConstraint(k, v) ==
    IF k = "PrefetchCopyIntervalInBytes" THEN v = -1 \/ (v % 8 = 0 /\ v < 32768)
    ELSE IF k = "AllocatePrefetchStepSize" THEN v % 8 = 0
    ELSE v = -1 \/ v % 8 = 0

\* The value of flag k when its realignment block starts.
BeforeRealign(k) == PrefetchDefaults(requested).flags[k]

C8_AlignmentIdempotence ==
    pc = "vendor" =>
        \A k \in RealignedKnobs :
            /\ MeetsConstraint(k, BeforeRealign(k))
                => flags[k] = BeforeRealign(k) /\ AlignWarning(k) \notin warnings
            /\ ~MeetsConstraint(k, BeforeRealign(k)) => AlignWarning(k) \in warnings
            /\ MeetsConstraint(k, flags[k])
            /\ Realign(k, flags[k]) = [val |-> flags[k], warned |-> FALSE]
            /\ flags[k] <= BeforeRealign(k)

\* An aligned value of the operator's went through the realignment unchanged.
C8_Witness ==
    /\ pc = "vendor"
    /\ Explicit("PrefetchCopyIntervalInBytes", 16)
    /\ flags["PrefetchCopyIntervalInBytes"] = 16
    /\ warnings = {}

----------------------------------------------------------------------------
(* C9: after check_virtualizations, the first line of the product-name     *)
(* file that holds KVM or VMWare (ignoring case) decides the verdict, KVM  *)
(* if the line holds KVM and VMWare otherwise, and the hypervisor-type     *)
(* file is then not opened; it is opened, and searched for Xen only,       *)
(* exactly when the product-name file cannot be opened or has no such      *)
(* line; a file that cannot be opened is no error; the verdict is stored   *)
(* at most once and stays NoDetectedVirtualization when nothing matches.   *)
HoldsSig(line, sig) ==
    \E i \in 1..Len(line) :
        /\ i + Len(sig) - 1 <= Len(line)
        /\ \A j \in 1..Len(sig) : ToLower(line[i + j - 1]) = ToLower(sig[j])

ProductHits ==
    {n \in 1..Len(files.pname.lines) :
        HoldsSig(files.pname.lines[n], SigKVM) \/ HoldsSig(files.pname.lines[n], SigVMWare)}

FirstProductHit == CHOOSE n \in ProductHits : \A m \in ProductHits : n <= m

TypeHoldsXen ==
    \E n \in 1..Len(files.tname.lines) : HoldsSig(files.tname.lines[n], SigXen)

C9_VirtualizationPrecedence ==
    /\ ~Past("virtualization") =>
        /\ opened = <<>>
        /\ virtWrites = 0
        /\ _detected_virtualization = "NoDetectedVirtualization"
    /\ Past("virtualization") =>
        /\ fatal = "none"
        /\ virtWrites <= 1
        /\ virtWrites = 0 <=> _detected_virtualization = "NoDetectedVirtualization"
        /\ IF files.pname.exists /\ ProductHits # {}
           THEN /\ opened = <<"product_name">>
                /\ _detected_virtualization =
                     IF HoldsSig(files.pname.lines[FirstProductHit], SigKVM)
                     THEN "KVM" ELSE "VMWare"
           ELSE /\ opened = <<"product_name", "hypervisor/type">>
                /\ _detected_virtualization =
                     IF files.tname.exists /\ TypeHoldsXen
                     THEN "XenPVHVM" ELSE "NoDetectedVirtualization"

\* The second line of the product-name file holds kvm; the hypervisor-type
\* file holds Xen and was never opened.
C9_Witness ==
    /\ pc = "done"
    /\ files.pname.exists
    /\ ProductHits # {}
    /\ FirstProductHit = 2
    /\ files.tname.exists
    /\ TypeHoldsXen
    /\ _detected_virtualization = "KVM"
    /\ opened = <<"product_name">>

----------------------------------------------------------------------------
(* C10 as stated: with UseSVE > 0 after the hardware length was validated  *)
(* and MaxVectorSize set below 16 by the operator, the MaxVectorSize block *)
(* aborts initialization.                                                  *)
BelowMinimum ==
    /\ pc = "max_vector_sve"
    /\ flags["UseSVE"] > 0
    /\ "MaxVectorSize" \in cmdline
    /\ flags["MaxVectorSize"] < sve_vl_min

C10_AbortBelowMinimum == [][BelowMinimum => pc' = "aborted"]_vars

(* C10 amended: in that case the MaxVectorSize block does not abort: it    *)
(* warns that SVE does not support vectors shorter than 16 bytes, sets     *)
(* UseSVE to 0 and continues with the NEON block, which aborts if the      *)
(* operator's MaxVectorSize is not a power of two, raises it to 8 with a   *)
(* warning if it is below 8 and keeps it otherwise.                        *)
DisabledSVE ==
    Warn("UseSVE", "SVE does not support vector length less than 16 bytes. Disabling SVE.")
        \in warnings

C10_DisableBelowMinimum ==
    [][ /\ BelowMinimum =>
            /\ pc' = "neon"
            /\ fatal' = "none"
            /\ flags' = [flags EXCEPT !["UseSVE"] = 0]
            /\ DisabledSVE'
            /\ sveSet' = sveSet
        /\ (pc = "neon" /\ DisabledSVE) =>
            IF ~is_power_of_2(requested["MaxVectorSize"])
            THEN pc' = "aborted" /\ fatal' = "Unsupported MaxVectorSize"
            ELSE /\ pc' = "spin_wait"
                 /\ flags'["UseSVE"] = 0
                 /\ flags'["MaxVectorSize"] =
                      IF requested["MaxVectorSize"] < 8 THEN 8 ELSE requested["MaxVectorSize"]
                 /\ requested["MaxVectorSize"] < 8
                      <=> Warn("MaxVectorSize", "must be at least 8 on this platform")
                            \in warnings'
      ]_vars

\* -XX:MaxVectorSize=8 on an SVE machine: SVE was disabled and
\* initialization completed with MaxVectorSize = 8.
C10_Witness ==
    /\ pc = "done"
    /\ DisabledSVE
    /\ "SVE" \in features
    /\ Explicit("MaxVectorSize", 8)
    /\ flags["UseSVE"] = 0
    /\ flags["MaxVectorSize"] = 8

----------------------------------------------------------------------------
(* C11 as stated: if the operator set UseSVE to a tier above 0 whose       *)
(* feature bit is absent (tier 1 needs the SVE bit, tier 2 the SVE2 bit),  *)
(* initialize sets UseSVE to 0 with a warning and neither queries nor      *)
(* negotiates the vector length; so when initialization completes          *)
(* UseSVE = 2 implies the SVE2 bit and UseSVE >= 1 implies the SVE bit.    *)
TierBit(u) == IF u = 2 THEN "SVE2" ELSE "SVE"

TierBitAbsent ==
    /\ "UseSVE" \in cmdline
    /\ requested["UseSVE"] > 0
    /\ TierBit(requested["UseSVE"]) \notin features

GateWarning ==
    Warn("UseSVE", "specified, but not supported on current CPU. Disabling SVE.")
        \in warnings

QueryWarnings ==
    {Warn("UseSVE", "Unable to get SVE vector length on this system. Disabling SVE."),
     Warn("UseSVE", "Detected SVE vector length should be a power of two and a multiple of 16. Disabling SVE.")}

C11_TierGating ==
    /\ (Past("sve_gate") /\ TierBitAbsent) =>
          /\ flags["UseSVE"] = 0
          /\ GateWarning
          /\ warnings \cap QueryWarnings = {}
          /\ _initial_sve_vector_length = 0
          /\ sveSet = <<>>
    /\ pc = "done" =>
          /\ flags["UseSVE"] = 2 => "SVE2" \in features
          /\ flags["UseSVE"] >= 1 => "SVE" \in features

(* What the code does for C11: lines 403-410 test the SVE bit only.  A     *)
(* UseSVE above 0 without the SVE bit is set to 0 with the warning and the *)
(* length is neither queried nor negotiated, and a UseSVE >= 1 at the end  *)
(* implies the SVE bit; an explicit UseSVE=2 with the SVE bit and without  *)
(* the SVE2 bit is kept.                                                   *)
C11_SVEBitGating ==
    /\ (Past("sve_gate") /\ "UseSVE" \in cmdline /\ requested["UseSVE"] > 0
            /\ "SVE" \notin features) =>
          /\ flags["UseSVE"] = 0
          /\ GateWarning
          /\ warnings \cap QueryWarnings = {}
          /\ _initial_sve_vector_length = 0
          /\ sveSet = <<>>
    /\ pc = "done" =>
          /\ flags["UseSVE"] >= 1 => "SVE" \in features
          /\ (flags["UseSVE"] = 2 /\ "SVE2" \notin features) => Explicit("UseSVE", 2)

\* -XX:UseSVE=2 on a CPU with the SVE bit and without the SVE2 bit:
\* initialization completed with UseSVE = 2 and the queried length recorded.
C11_KeptTierTwo ==
    /\ pc = "done"
    /\ Explicit("UseSVE", 2)
    /\ features = {"SVE"}
    /\ flags["UseSVE"] = 2
    /\ ~GateWarning
    /\ _initial_sve_vector_length = 32

====
